---- MODULE Spec2Model ----
(***************************************************************************)
(* Model of the IMF gadget API: the gadget table, the controllers of       *)
(* src/src/controllers.ts and the route handlers of src/src/handlers.ts.   *)
(* Strings the code inspects character by character (statuses, names) are  *)
(* sequences of one-character strings; ids are integers standing for the   *)
(* strings a request can carry.                                            *)
(***************************************************************************)
EXTENDS Integers, Sequences, FiniteSets, TLC

VARIABLES gadgets, last, users, now, held, authorization, pending

\* The users table, the clock, the token the client was last given, the
\* Authorization header of the request in `last`, and the requests that
\* passed their controller's check and are suspended at its write.
authVars == <<users, now, held, authorization, pending>>

vars == <<gadgets, last, users, now, held, authorization, pending>>

(* ------------------------------ bounds -------------------------------- *)

\* Number of distinct UUIDs the database can hand out, hence of gadget rows.
MaxGadgets == 2

\* Rows the users table can hold.
MaxUsers == 2

\* Register requests that can be in flight at once.
MaxInflight == 2

\* Seconds the clock can run past the lifetime of a token.
MaxSkew == 2

\* The cost factor registerUser passes to bcryptjs.hash.
SaltRounds == 10

(* ------------------------------ strings ------------------------------- *)

Lower == <<"a","b","c","d","e","f","g","h","i","j","k","l","m",
           "n","o","p","q","r","s","t","u","v","w","x","y","z">>

Upper == <<"A","B","C","D","E","F","G","H","I","J","K","L","M",
           "N","O","P","Q","R","S","T","U","V","W","X","Y","Z">>

Letters == 1..Len(Lower)

\* The upper-case form of each lower-case letter, and the converse.
LowerToUpper ==
  [c \in {Lower[i] : i \in Letters} |-> Upper[CHOOSE i \in Letters : Lower[i] = c]]

UpperToLower ==
  [c \in {Upper[i] : i \in Letters} |-> Lower[CHOOSE i \in Letters : Upper[i] = c]]

\* String.prototype.toUpperCase / toLowerCase on one character: a letter of
\* the other case is converted, any other character is kept.
toUpperCaseChar(c) == IF c \in DOMAIN LowerToUpper THEN LowerToUpper[c] ELSE c

toLowerCaseChar(c) == IF c \in DOMAIN UpperToLower THEN UpperToLower[c] ELSE c

toUpperCase(text) ==
  IF text = <<>> THEN <<>> ELSE [i \in 1..Len(text) |-> toUpperCaseChar(text[i])]

toLowerCase(text) ==
  IF text = <<>> THEN <<>> ELSE [i \in 1..Len(text) |-> toLowerCaseChar(text[i])]

\* text.charAt(0): the first character, or "" for the empty string.
charAt0(text) == IF text = <<>> THEN <<>> ELSE <<text[1]>>

\* text.slice(1)
slice1(text) == IF Len(text) <= 1 THEN <<>> ELSE SubSeq(text, 2, Len(text))

\* A capitalize that forgets to lower-case the tail.
capitalize_firstOnly(text) == toUpperCase(charAt0(text)) \o slice1(text)

capitalize(text) == toUpperCase(charAt0(text)) \o toLowerCase(slice1(text))

\* An isCapitalized that compares without regard to case.
isCapitalized_anyCase(text) == toLowerCase(text) = toLowerCase(capitalize(text))

isCapitalized(text) == text = capitalize(text)

\* The value of a body field or query parameter the request does not carry.
Undefined == <<"undefined">>

\* JavaScript truthiness of a string-or-undefined value.
Truthy(v) == v # Undefined /\ v # <<>>

Available == <<"A","v","a","i","l","a","b","l","e">>
Deployed == <<"D","e","p","l","o","y","e","d">>
Destroyed == <<"D","e","s","t","r","o","y","e","d">>
Decommissioned == <<"D","e","c","o","m","m","i","s","s","i","o","n","e","d">>

GadgetStatus == {Available, Deployed, Destroyed, Decommissioned}

validStatuses == {Available, Deployed, Destroyed, Decommissioned}

\* varchar("status", { length: 20 }) and varchar("name", { length: 255 })
StatusMaxLen == 20
NameMaxLen == 255

(* -------------------------------- ids --------------------------------- *)

\* The syntactically valid UUIDs of the model.
UUIDs == 1..MaxGadgets

\* An id string that is not a UUID, and an absent id.
NotAUUID == 0
UndefinedId == 0 - 1

isValidUUID(id) == id \in UUIDs

(* --------------------------- the gadget table ------------------------- *)

\* db.select().from(gadgets).where(eq(gadgets.id, id)); Postgres rejects a
\* value that is not a uuid, which the caller sees as a thrown error.
SelectById(db, id) == {g \in db : g.id = id}

SelectByStatus(db, status) == {g \in db : g.status = status}

\* An update of the status without its where clause.
UpdateStatus_allRows(db, id, status) ==
  {[g EXCEPT !.status = status] : g \in db}

UpdateStatus(db, id, status) ==
  {IF g.id = id THEN [g EXCEPT !.status = status] ELSE g : g \in db}

UpdateName(db, id, name) ==
  {IF g.id = id THEN [g EXCEPT !.name = name] ELSE g : g \in db}

Ids(db) == {g.id : g \in db}

(* ----------------------------- controllers ---------------------------- *)

\* What a controller call leaves behind: the table, the { ok, message } it
\* returned, the rows its select read, the store operations it issued (in
\* order), and whether it threw instead of returning.
Outcome(db, ok, message, rows, trace, threw) ==
  [db |-> db, ok |-> ok, message |-> message, rows |-> rows,
   trace |-> trace, threw |-> threw]

\* Postgres rejects a comparison of the uuid column with a non-uuid string.
getGadget(db, id) ==
  IF isValidUUID(id)
  THEN Outcome(db, TRUE, "", SelectById(db, id), <<"select">>, FALSE)
  ELSE Outcome(db, FALSE, "", {}, <<"select">>, TRUE)

getGadgetsByStatus(db, status) ==
  Outcome(db, TRUE, "", SelectByStatus(db, status), <<"select">>, FALSE)

getGadgets(db) == Outcome(db, TRUE, "", db, <<"select">>, FALSE)

\* The insert fails on a NOT NULL column left undefined and on a value
\* longer than its varchar; the id is the database's random default.
createGadget(db, name, status, newId) ==
  IF \/ name = Undefined \/ status = Undefined
     \/ Len(name) > NameMaxLen \/ Len(status) > StatusMaxLen
  THEN Outcome(db, FALSE, "", {}, <<"insert">>, TRUE)
  ELSE Outcome(db \cup {[id |-> newId, name |-> name, status |-> status]},
               TRUE, "", {}, <<"insert">>, FALSE)

\* An updateGadget that writes its second argument into the status column.
updateGadget_writesStatus(db, id, name, status) ==
  IF ~Truthy(name) \/ ~isValidUUID(id) \/ Len(name) > StatusMaxLen
  THEN Outcome(db, FALSE, "", {}, <<"update">>, TRUE)
  ELSE Outcome(UpdateStatus(db, id, name), TRUE, "", {}, <<"update">>, FALSE)

\* set({ status: undefined }) has no value to set: the query builder throws
\* before any statement reaches the database.
updateGadget(db, id, name, status) ==
  IF Truthy(name)
  THEN IF ~isValidUUID(id) \/ Len(name) > NameMaxLen
       THEN Outcome(db, FALSE, "", {}, <<"update">>, TRUE)
       ELSE Outcome(UpdateName(db, id, name), TRUE, "", {}, <<"update">>, FALSE)
  ELSE IF status = Undefined
       THEN Outcome(db, FALSE, "", {}, <<>>, TRUE)
       ELSE IF ~isValidUUID(id) \/ Len(status) > StatusMaxLen
            THEN Outcome(db, FALSE, "", {}, <<"update">>, TRUE)
            ELSE Outcome(UpdateStatus(db, id, status), TRUE, "", {},
                         <<"update">>, FALSE)

\* The one row of a non-empty result of a select by primary key: check[0].
First(check) == CHOOSE g \in check : TRUE

\* A decommissionGadget without the already-Decommissioned guard.
decommissionGadget_noGuard(db, id) ==
  IF ~isValidUUID(id)
  THEN Outcome(db, FALSE, "Wrong UUID was provided", {}, <<>>, FALSE)
  ELSE LET check == SelectById(db, id) IN
       IF check = {}
       THEN Outcome(db, FALSE, "No gadget with this UUID was found", check,
                    <<"select">>, FALSE)
       ELSE Outcome(UpdateStatus(db, id, Decommissioned), TRUE,
                    "Gadget was Decommissioned successfully", check,
                    <<"select", "update">>, FALSE)

\* A decommissionGadget that also refuses a Destroyed gadget.
decommissionGadget_keepsDestroyed(db, id) ==
  IF ~isValidUUID(id)
  THEN Outcome(db, FALSE, "Wrong UUID was provided", {}, <<>>, FALSE)
  ELSE LET check == SelectById(db, id) IN
       IF check = {}
       THEN Outcome(db, FALSE, "No gadget with this UUID was found", check,
                    <<"select">>, FALSE)
       ELSE IF First(check).status \in {Decommissioned, Destroyed}
            THEN Outcome(db, FALSE, "Gadget was already Decommissioned", check,
                         <<"select">>, FALSE)
            ELSE Outcome(UpdateStatus(db, id, Decommissioned), TRUE,
                         "Gadget was Decommissioned successfully", check,
                         <<"select", "update">>, FALSE)

decommissionGadget(db, id) ==
  IF ~isValidUUID(id)
  THEN Outcome(db, FALSE, "Wrong UUID was provided", {}, <<>>, FALSE)
  ELSE LET check == SelectById(db, id) IN
       IF check = {}
       THEN Outcome(db, FALSE, "No gadget with this UUID was found", check,
                    <<"select">>, FALSE)
       ELSE IF First(check).status = Decommissioned
            THEN Outcome(db, FALSE, "Gadget was already Decommissioned", check,
                         <<"select">>, FALSE)
            ELSE Outcome(UpdateStatus(db, id, Decommissioned), TRUE,
                         "Gadget was Decommissioned successfully", check,
                         <<"select", "update">>, FALSE)

\* A destroyGadget that writes before it looks at the status it read.
destroyGadget_writesFirst(db, id) ==
  IF ~isValidUUID(id)
  THEN Outcome(db, FALSE, "Wrong UUID was provided", {}, <<>>, FALSE)
  ELSE LET check == SelectById(db, id) IN
       IF check = {}
       THEN Outcome(db, FALSE, "There is no gadget to destroy", check,
                    <<"select">>, FALSE)
       ELSE IF First(check).status = Destroyed
            THEN Outcome(UpdateStatus(db, id, Destroyed), FALSE,
                         "Gadget was already destroyed", check,
                         <<"select", "update">>, FALSE)
            ELSE Outcome(UpdateStatus(db, id, Destroyed), TRUE,
                         "Gadget is destroyed successfully", check,
                         <<"select", "update">>, FALSE)

\* A destroyGadget that reports success without checking that a row was read.
destroyGadget_noExistenceCheck(db, id) ==
  IF ~isValidUUID(id)
  THEN Outcome(db, FALSE, "Wrong UUID was provided", {}, <<>>, FALSE)
  ELSE LET check == SelectById(db, id) IN
       IF check # {} /\ First(check).status = Destroyed
       THEN Outcome(db, FALSE, "Gadget was already destroyed", check,
                    <<"select">>, FALSE)
       ELSE Outcome(UpdateStatus(db, id, Destroyed), TRUE,
                    "Gadget is destroyed successfully", check,
                    <<"select", "update">>, FALSE)

\* A destroyGadget that reads the table before it validates the id.
destroyGadget_readsFirst(db, id) ==
  LET check == SelectById(db, id) IN
  IF ~isValidUUID(id)
  THEN Outcome(db, FALSE, "Wrong UUID was provided", {}, <<"select">>, FALSE)
  ELSE IF check = {}
       THEN Outcome(db, FALSE, "There is no gadget to destroy", check,
                    <<"select">>, FALSE)
       ELSE IF First(check).status = Destroyed
            THEN Outcome(db, FALSE, "Gadget was already destroyed", check,
                         <<"select">>, FALSE)
            ELSE Outcome(UpdateStatus(db, id, Destroyed), TRUE,
                         "Gadget is destroyed successfully", check,
                         <<"select", "update">>, FALSE)

\* The deleteGadget of the earlier self-destruct route: the row is removed.
destroyGadget_deletesRow(db, id) ==
  IF ~isValidUUID(id)
  THEN Outcome(db, FALSE, "Wrong UUID was provided", {}, <<>>, FALSE)
  ELSE LET check == SelectById(db, id) IN
       IF check = {}
       THEN Outcome(db, FALSE, "There is no gadget to destroy", check,
                    <<"select">>, FALSE)
       ELSE Outcome({g \in db : g.id # id}, TRUE,
                    "Gadget is destroyed successfully", check,
                    <<"select", "delete">>, FALSE)

destroyGadget(db, id) ==
  IF ~isValidUUID(id)
  THEN Outcome(db, FALSE, "Wrong UUID was provided", {}, <<>>, FALSE)
  ELSE LET check == SelectById(db, id) IN
       IF check = {}
       THEN Outcome(db, FALSE, "There is no gadget to destroy", check,
                    <<"select">>, FALSE)
       ELSE IF First(check).status = Destroyed
            THEN Outcome(db, FALSE, "Gadget was already destroyed", check,
                         <<"select">>, FALSE)
            ELSE Outcome(UpdateStatus(db, id, Destroyed), TRUE,
                         "Gadget is destroyed successfully", check,
                         <<"select", "update">>, FALSE)

(* ------------------------------ handlers ------------------------------ *)

\* The JSONResponse envelope sent with res.status(code).json(...).
Envelope(code, success, message, data) ==
  [code |-> code, envelope |-> TRUE, success |-> success,
   message |-> message, data |-> data]

\* res.send(rows) / res.json(rows): the bare array, status 200, no envelope.
Bare(rows) ==
  [code |-> 200, envelope |-> FALSE, success |-> TRUE,
   message |-> "", data |-> rows]

\* A handler in progress: the table, the responses it has tried to send,
\* whether it has thrown, the store operations issued so far, and the last
\* controller result.
Start(db) ==
  [db |-> db, sends |-> <<>>, threw |-> FALSE, trace |-> <<>>,
   ok |-> FALSE, message |-> "", rows |-> {}]

\* res.json / res.send: the first response goes out; a second attempt
\* throws ERR_HTTP_HEADERS_SENT.  Nothing runs after a throw.
Send(h, r) ==
  IF h.threw THEN h
  ELSE IF h.sends # <<>>
       THEN [h EXCEPT !.sends = Append(@, r), !.threw = TRUE]
       ELSE [h EXCEPT !.sends = <<r>>]

Throw(h) == [h EXCEPT !.threw = TRUE]

\* await of a controller call: its effects and result join the handler's.
Await(h, o) ==
  IF h.threw THEN h
  ELSE [h EXCEPT !.db = o.db, !.trace = @ \o o.trace, !.threw = o.threw,
                 !.ok = o.ok, !.message = o.message, !.rows = o.rows]

\* The response the client receives, if any.
Sent(h) == IF h.sends = <<>> THEN {} ELSE {h.sends[1]}

\* app.get(["/gadgets", "/gadgets/:id"])
getGadgetsRoute(db, id, query_status) ==
  LET h0 == Start(db)
      h1 == IF id # UndefinedId
            THEN LET a == Await(h0, getGadget(db, id)) IN Send(a, Bare(a.rows))
            ELSE h0
      h2 == IF h1.threw \/ ~Truthy(query_status) THEN h1
            ELSE LET a == IF ~isCapitalized(query_status)
                          THEN Send(h1, Envelope(400, FALSE,
                                                 "Status must be capitalized", {}))
                          ELSE h1
                     b == IF query_status \notin validStatuses
                          THEN Send(a, Envelope(400, FALSE,
                                                "Given status does not exist", {}))
                          ELSE a
                     c == Await(b, getGadgetsByStatus(b.db, query_status))
                 IN  Send(c, Envelope(200, TRUE, "", c.rows))
      h3 == Await(h2, getGadgets(h2.db))
  IN  Send(h3, Bare(h3.rows))

\* app.post("/gadgets"); capitalize(undefined) is a TypeError.
createGadgetRoute(db, body, newId) ==
  LET h0 == Start(db)
      h1 == IF ~Truthy(body.name) \/ ~Truthy(body.status)
            THEN Send(h0, Envelope(400, FALSE,
                                   "Body is missing status or name parameter.", {}))
            ELSE h0
      h2 == IF body.status = Undefined THEN Throw(h1)
            ELSE Await(h1, createGadget(h1.db, body.name,
                                        capitalize(body.status), newId))
  IN  Send(h2, Envelope(200, TRUE, "Gadget is created successfully", {}))

\* app.patch("/gadgets/:id"): params_id is always present on this route, and
\* updateGadget is called with two arguments, so its status is undefined.
updateGadgetRoute(db, id, body) ==
  LET h0 == Start(db)
      h1 == IF ~Truthy(body.name) /\ ~Truthy(body.status)
            THEN Send(h0, Envelope(400, FALSE,
                                   "Body is missing status and name parameter.", {}))
            ELSE h0
      h2 == IF Truthy(body.name)
            THEN Await(h1, updateGadget(h1.db, id, body.name, Undefined))
            ELSE IF body.status = Undefined THEN Throw(h1)
                 ELSE Await(h1, updateGadget(h1.db, id, capitalize(body.status),
                                             Undefined))
  IN  IF h2.threw THEN h2
      ELSE IF h2.ok
           THEN Send(h2, Envelope(200, TRUE, "Gadget was updated successfully.", {}))
           ELSE Send(h2, Envelope(422, FALSE, "Unspecified error occured.", {}))

\* app.delete("/gadgets:/id"): the path has no :id parameter, so the id is
\* the query's.
deleteGadgetRoute(db, query_id) ==
  LET h0 == Start(db)
      h1 == Await(h0, decommissionGadget(db, query_id))
      h2 == IF ~h1.ok
            THEN Send(h1, Envelope(500, FALSE, h1.message, {}))
            ELSE h1
  IN  Send(h2, Envelope(200, TRUE, h2.message, {}))

\* app.post("/gadgets/:id/self-destruct")
destructGadget(db, gadget_id) ==
  LET h0 == Start(db)
      h1 == Await(h0, destroyGadget(db, gadget_id))
  IN  IF ~h1.ok
      THEN Send(h1, Envelope(400, FALSE, h1.message, {}))
      ELSE Send(h1, Envelope(200, TRUE, h1.message, {}))

(* ------------------------------ requests ------------------------------ *)

\* first letter lower-case, the rest upper-case
invertCase(text) == toLowerCase(charAt0(text)) \o toUpperCase(slice1(text))

\* The letter-casings of a status the requests are drawn from.
Casings(S) == {S, toLowerCase(S), toUpperCase(S), invertCase(S)}

Hook == <<"H","o","o","k">>
Broken == <<"b","r","o","k","e","n">>

\* Statuses as a create request may spell them: each valid one as it is
\* and in another casing, one that is no status, the empty string, and none.
StatusInputs ==
  validStatuses
    \cup {toLowerCase(Available), toUpperCase(Deployed), invertCase(Destroyed),
          toLowerCase(Decommissioned), Broken, <<>>, Undefined}

CreateBodies == [name : {Hook, Undefined}, status : StatusInputs]

\* A PATCH body with a name, with a status, or with neither.
PatchBodies ==
  {[name |-> Hook, status |-> Undefined],
   [name |-> Undefined, status |-> toLowerCase(Deployed)],
   [name |-> Undefined, status |-> Undefined]}

NoBody == [name |-> Undefined, status |-> Undefined]

\* GET /gadgets, GET /gadgets?status=X, GET /gadgets/:id and
\* GET /gadgets/:id?status=X
GetRequests ==
  ({UndefinedId} \X (Casings(Deployed)
                       \cup {Available, toLowerCase(Destroyed), Broken,
                             capitalize(Broken), Undefined}))
    \cup ((UUIDs \cup {NotAUUID}) \X {Undefined})
    \cup {<<1, Deployed>>}

\* What is kept of the last request handled and of its outcome.
Handled(op, id, body, query, h) ==
  [op |-> op, id |-> id, body |-> body, query |-> query,
   sends |-> h.sends, threw |-> h.threw, trace |-> h.trace,
   ok |-> h.ok, message |-> h.message, rows |-> h.rows]

(* ------------------------- users and passwords ------------------------ *)

Alice == <<"a","l","i","c","e">>
Bob == <<"b","o","b">>
Pw1 == <<"p","w","1">>
Pw2 == <<"p","w","2">>

\* The ids the users table can hand out.
UserIds == 1..MaxUsers

\* bcryptjs.hash of a string: the digest is not the plaintext, and records
\* the cost it was computed with.
hash(password, rounds) == [bcrypt |-> password, rounds |-> rounds]

\* bcryptjs.compare of a string with a digest.
compare(password, hashed) == hashed.bcrypt = password

\* db.select().from(users).where(eq(users.username, username))
usersByUsername(db, username) == {u \in db : u.username = username}

\* A createUser that never finds the username taken.
createUser_check_none(db, username) ==
  Outcome(db, TRUE, "", {}, <<"select">>, FALSE)

\* createUser up to its first await, the select by username. With an
\* undefined username the call ends in a rejection whatever the driver does
\* with the undefined parameter (the select throws, or it matches nothing
\* and the insert violates NOT NULL).
createUser_check(db, username) ==
  IF username = Undefined
  THEN Outcome(db, FALSE, "", {}, <<"select">>, TRUE)
  ELSE LET check == usersByUsername(db, username) IN
       IF check # {}
       THEN Outcome(db, FALSE, "This username is not empty", {},
                    <<"select">>, FALSE)
       ELSE Outcome(db, TRUE, "", {}, <<"select">>, FALSE)

\* createUser after its check found no row: the insert. The table has no
\* unique constraint on username.
createUser_insert(db, username, password, newId) ==
  Outcome(db \cup {[id |-> newId, username |-> username,
                    password |-> password]},
          TRUE, "User is created successfully", {}, <<"insert">>, FALSE)

createUser(db, username, password, newId) ==
  LET c == createUser_check(db, username) IN
  IF c.threw \/ ~c.ok THEN c
  ELSE [createUser_insert(db, username, password, newId)
          EXCEPT !.trace = c.trace \o @]

\* bcryptjs.compare rejects when the password is not a string.
loginUser(db, username, password) ==
  LET check == usersByUsername(db, username) IN
  IF check = {}
  THEN Outcome(db, FALSE, "This user doesn't exist", {}, <<"select">>, FALSE)
  ELSE IF password = Undefined
       THEN Outcome(db, FALSE, "", {}, <<"select">>, TRUE)
       ELSE IF ~compare(password, First(check).password)
            THEN Outcome(db, FALSE, "The password is wrong", {},
                         <<"select">>, FALSE)
            ELSE Outcome(db, TRUE, "The user logged in.", {},
                         <<"select">>, FALSE)

(* -------------------------------- tokens ------------------------------ *)

SECRET_KEY == "SECRET_KEY"
OtherKey == "another key"

\* Seconds a token is valid for.
expiresIn == 60 * 60 * 24 * 7

\* jwt.sign: header, claims and a signature that binds the claims to the key.
sign(payload, key, lifetime, clock) ==
  LET claims == [username |-> payload.username, iat |-> clock,
                 exp |-> clock + lifetime]
  IN  <<"HS256", claims, [key |-> key, of |-> claims]>>

\* jwt.verify: the name of the error it throws, or "ok".
verify(token, key, clock) ==
  IF Len(token) # 3 THEN "JsonWebTokenError"
  ELSE IF token[3] # [key |-> key, of |-> token[2]] THEN "JsonWebTokenError"
  ELSE IF clock >= token[2].exp THEN "TokenExpiredError"
  ELSE "ok"

\* An Authorization header is the sequence of its space-separated words;
\* an absent header has none.
NoHeader == <<>>

\* authHeader.split(" ")[1]
bearerToken(authHeader) ==
  IF Len(authHeader) >= 2 THEN authHeader[2] ELSE Undefined

(* ---------------------- register, login, the guard -------------------- *)

\* registerUser before it calls createUser: the body check, then
\* bcryptjs.hash, which rejects when the password is not a string.
registerUser_validate(db, body) ==
  LET h0 == Start(db) IN
  IF ~Truthy(body.username) /\ ~Truthy(body.password)
  THEN Send(h0, Envelope(400, FALSE,
                         "Username or Password is missing in body.", {}))
  ELSE IF body.password = Undefined THEN Throw(h0)
       ELSE h0

\* registerUser after createUser has returned.
registerUser_respond(h) ==
  IF ~h.ok
  THEN Send(h, Envelope(400, FALSE, h.message, {}))
  ELSE Send(h, Envelope(201, TRUE, h.message, {}))

\* A registerUser that stores the digest of the username.
registerUser_hashesUsername(db, body, newId) ==
  LET h0 == registerUser_validate(db, body) IN
  IF h0.threw \/ h0.sends # <<>> THEN h0
  ELSE registerUser_respond(
         Await(h0, createUser(db, body.username,
                              hash(body.username, SaltRounds), newId)))

\* app.post("/register")
registerUser(db, body, newId) ==
  LET h0 == registerUser_validate(db, body) IN
  IF h0.threw \/ h0.sends # <<>> THEN h0
  ELSE registerUser_respond(
         Await(h0, createUser(db, body.username,
                              hash(body.password, SaltRounds), newId)))

\* app.post("/login")
verifyLoginUser(db, body, clock) ==
  LET h0 == Start(db) IN
  IF ~Truthy(body.username) /\ ~Truthy(body.password)
  THEN Send(h0, Envelope(400, FALSE,
                         "Username or Password is missing in body.", {}))
  ELSE LET h1 == Await(h0, loginUser(db, body.username, body.password)) IN
       IF ~h1.ok
       THEN Send(h1, Envelope(400, FALSE, h1.message, {}))
       ELSE Send(h1, Envelope(201, TRUE, h1.message,
                              {[token |-> sign([username |-> body.username],
                                               SECRET_KEY, expiresIn, clock)]}))

\* A guard that lets a request without Authorization header through.
authMiddleware_headerOptional(db, authHeader, clock, routed) ==
  IF authHeader = NoHeader THEN routed
  ELSE LET e == verify(bearerToken(authHeader), SECRET_KEY, clock) IN
       IF e = "ok" THEN routed
       ELSE IF e = "JsonWebTokenError"
            THEN Send(Start(db), Envelope(401, FALSE, "Invalid Token", {}))
            ELSE Start(db)

\* The app.use registered before the gadget routes: `routed` is what the
\* route's handler does once next() is called. An error of jwt.verify that
\* is not a JsonWebTokenError is caught and gets no response.
authMiddleware(db, authHeader, clock, routed) ==
  IF authHeader = NoHeader
  THEN Send(Start(db), Envelope(401, FALSE,
                                "JWT was not found in headers.", {}))
  ELSE LET e == verify(bearerToken(authHeader), SECRET_KEY, clock) IN
       IF e = "ok" THEN routed
       ELSE IF e = "JsonWebTokenError"
            THEN Send(Start(db), Envelope(401, FALSE, "Invalid Token", {}))
            ELSE Start(db)

(* ---------------------------- specification --------------------------- *)

Init ==
  /\ gadgets = {}
  /\ last = Handled("none", UndefinedId, NoBody, Undefined, Start({}))
  /\ users = {}
  /\ now = 0
  /\ held = Undefined
  /\ authorization = NoHeader
  /\ pending = {}

GetGadgets ==
  \E r \in GetRequests :
    LET h == getGadgetsRoute(gadgets, r[1], r[2]) IN
    /\ gadgets' = h.db
    /\ last' = Handled("getGadgetsRoute", r[1], NoBody, r[2], h)
    /\ UNCHANGED authVars

\* The new row's id is any UUID not in the table yet.
CreateGadget ==
  \E body \in CreateBodies, newId \in UUIDs \ Ids(gadgets) :
    LET h == createGadgetRoute(gadgets, body, newId) IN
    /\ gadgets' = h.db
    /\ last' = Handled("createGadgetRoute", newId, body, Undefined, h)
    /\ UNCHANGED authVars

UpdateGadget ==
  \E id \in UUIDs \cup {NotAUUID}, body \in PatchBodies :
    LET h == updateGadgetRoute(gadgets, id, body) IN
    /\ gadgets' = h.db
    /\ last' = Handled("updateGadgetRoute", id, body, Undefined, h)
    /\ UNCHANGED authVars

DeleteGadget ==
  \E id \in UUIDs \cup {NotAUUID, UndefinedId} :
    LET h == deleteGadgetRoute(gadgets, id) IN
    /\ gadgets' = h.db
    /\ last' = Handled("deleteGadgetRoute", id, NoBody, Undefined, h)
    /\ UNCHANGED authVars

DestructGadget ==
  \E id \in UUIDs \cup {NotAUUID} :
    LET h == destructGadget(gadgets, id) IN
    /\ gadgets' = h.db
    /\ last' = Handled("destructGadget", id, NoBody, Undefined, h)
    /\ UNCHANGED authVars

Next ==
  \/ GetGadgets
  \/ CreateGadget
  \/ UpdateGadget
  \/ DeleteGadget
  \/ DestructGadget

Spec == Init /\ [][Next]_vars

(* ------------------------- routes and their order --------------------- *)

\* The layers of the application in the order routes.ts registers them;
\* "use" is the token guard.
Stack ==
  << "POST /register", "POST /login", "GET /", "use",
     "GET /gadgets", "POST /gadgets", "PATCH /gadgets/:id",
     "DELETE /gadgets:/id", "POST /gadgets/:id/self-destruct" >>

Position(layer) == CHOOSE i \in 1..Len(Stack) : Stack[i] = layer

\* Express runs the layers in order: a route registered after the guard is
\* reached only through it.
dispatch(route, db, authHeader, clock, routed) ==
  IF Position("use") < Position(route)
  THEN authMiddleware(db, authHeader, clock, routed)
  ELSE routed

(* ------------------------ requests with credentials -------------------- *)

RegisterBodies ==
  [username : {Alice, Bob, Undefined}, password : {Pw1, Pw2, <<>>, Undefined}]

LoginBodies ==
  [username : {Alice, Bob}, password : {Pw1, Pw2, Undefined}]
    \cup {[username |-> Undefined, password |-> Undefined]}

AliceBody == [username |-> Alice, password |-> Pw1]

IsToken(t) == Len(t) = 3

\* The token of a login response.
TokenOf(h) == (CHOOSE d \in h.sends[1].data : TRUE).token

\* A string that is no JWT, a token signed with another key, and a held
\* token whose claims were altered after signing.
Garbage == <<"x">>
Forged == sign([username |-> Alice], OtherKey, expiresIn, 0)
Tampered(t) == <<t[1], [t[2] EXCEPT !.username = Bob], t[3]>>

\* The Authorization headers a client holding token t can send.
Headers(t) ==
  {NoHeader, <<"Bearer", Garbage>>, <<"Bearer", Forged>>}
    \cup (IF IsToken(t)
          THEN {<<"Bearer", t>>, <<t>>, <<"Bearer", Tampered(t)>>}
          ELSE {})

\* The header of a client that presents the token it was given, if any.
HeldHeader(t) == IF IsToken(t) THEN {<<"Bearer", t>>} ELSE {NoHeader}

(* ------------------------ register and login steps --------------------- *)

Register(bodies, headers) ==
  \E body \in bodies, hd \in headers, newId \in UserIds \ Ids(users) :
    LET h == dispatch("POST /register", users, hd, now,
                      registerUser(users, body, newId)) IN
    /\ users' = h.db
    /\ last' = Handled("registerUser", UndefinedId, body, Undefined, h)
    /\ authorization' = hd
    /\ UNCHANGED <<gadgets, now, held, pending>>

Login(bodies, headers) ==
  \E body \in bodies, hd \in headers :
    LET h == dispatch("POST /login", users, hd, now,
                      verifyLoginUser(users, body, now)) IN
    /\ last' = Handled("verifyLoginUser", UndefinedId, body, Undefined, h)
    /\ held' = IF \E r \in Sent(h) : r.success THEN TokenOf(h) ELSE held
    /\ authorization' = hd
    /\ UNCHANGED <<gadgets, users, now, pending>>

(* -------------- specification: register and login in sequence ---------- *)

RegisterUser == Register(RegisterBodies, {NoHeader})

LoginUser == Login(LoginBodies, {NoHeader})

NextAuth ==
  \/ RegisterUser
  \/ LoginUser

SpecAuth == Init /\ [][NextAuth]_vars

(* --------------- specification: register requests in flight ------------ *)

Clients == 1..MaxInflight

ConcurrentBodies == [username : {Alice, Bob}, password : {Pw1, Pw2}]

\* A register request runs up to the end of createUser's select. If the
\* username is free the request is suspended at the await of the insert.
RegisterCheck ==
  \E c \in Clients \ {p.client : p \in pending}, body \in ConcurrentBodies :
    LET h0 == registerUser_validate(users, body)
        h1 == Await(h0, createUser_check(users, body.username))
    IN  IF h0.threw \/ h0.sends # <<>>
        THEN /\ last' = Handled("registerUser", UndefinedId, body, Undefined, h0)
             /\ UNCHANGED <<gadgets, users, now, held, authorization, pending>>
        ELSE IF h1.threw \/ ~h1.ok
        THEN /\ last' = Handled("registerUser", UndefinedId, body, Undefined,
                                registerUser_respond(h1))
             /\ UNCHANGED <<gadgets, users, now, held, authorization, pending>>
        ELSE /\ pending' = pending \cup
                             {[client |-> c, body |-> body,
                               password |-> hash(body.password, SaltRounds)]}
             /\ UNCHANGED <<gadgets, last, users, now, held, authorization>>

\* A suspended register request resumes: the insert, then the response.
RegisterInsert ==
  \E p \in pending, newId \in UserIds \ Ids(users) :
    LET h == registerUser_respond(
               Await(Start(users),
                     createUser_insert(users, p.body.username, p.password,
                                       newId))) IN
    /\ users' = h.db
    /\ last' = Handled("registerUser", UndefinedId, p.body, Undefined, h)
    /\ pending' = pending \ {p}
    /\ UNCHANGED <<gadgets, now, held, authorization>>

NextAuthConc ==
  \/ RegisterCheck
  \/ RegisterInsert

SpecAuthConc == Init /\ [][NextAuthConc]_vars

(* ------------------------ gadget requests with a header ---------------- *)

\* GET /gadgets and GET /gadgets/:id
GuardedGetRequests == {<<UndefinedId, Undefined>>, <<1, Undefined>>}

GuardedCreateBody == [name |-> Hook, status |-> Available]

GuardedPatchBody == [name |-> Hook, status |-> Undefined]

GuardedGet(headers) ==
  \E hd \in headers, r \in GuardedGetRequests :
    LET h == dispatch("GET /gadgets", gadgets, hd, now,
                      getGadgetsRoute(gadgets, r[1], r[2])) IN
    /\ gadgets' = h.db
    /\ last' = Handled("getGadgetsRoute", r[1], NoBody, r[2], h)
    /\ authorization' = hd
    /\ UNCHANGED <<users, now, held, pending>>

GuardedCreate(headers) ==
  \E hd \in headers, newId \in UUIDs \ Ids(gadgets) :
    LET h == dispatch("POST /gadgets", gadgets, hd, now,
                      createGadgetRoute(gadgets, GuardedCreateBody, newId)) IN
    /\ gadgets' = h.db
    /\ last' = Handled("createGadgetRoute", newId, GuardedCreateBody,
                       Undefined, h)
    /\ authorization' = hd
    /\ UNCHANGED <<users, now, held, pending>>

GuardedUpdate(headers) ==
  \E hd \in headers :
    LET h == dispatch("PATCH /gadgets/:id", gadgets, hd, now,
                      updateGadgetRoute(gadgets, 1, GuardedPatchBody)) IN
    /\ gadgets' = h.db
    /\ last' = Handled("updateGadgetRoute", 1, GuardedPatchBody, Undefined, h)
    /\ authorization' = hd
    /\ UNCHANGED <<users, now, held, pending>>

GuardedDelete(headers) ==
  \E hd \in headers :
    LET h == dispatch("DELETE /gadgets:/id", gadgets, hd, now,
                      deleteGadgetRoute(gadgets, 1)) IN
    /\ gadgets' = h.db
    /\ last' = Handled("deleteGadgetRoute", 1, NoBody, Undefined, h)
    /\ authorization' = hd
    /\ UNCHANGED <<users, now, held, pending>>

GuardedDestruct(headers) ==
  \E hd \in headers :
    LET h == dispatch("POST /gadgets/:id/self-destruct", gadgets, hd, now,
                      destructGadget(gadgets, 1)) IN
    /\ gadgets' = h.db
    /\ last' = Handled("destructGadget", 1, NoBody, Undefined, h)
    /\ authorization' = hd
    /\ UNCHANGED <<users, now, held, pending>>

(* ----------------- specification: a token and the clock ---------------- *)

\* The instants the clock is read at: the first seconds, and the seconds
\* around the end of the lifetime of a token issued in those.
Instants == (0..MaxSkew) \cup ((expiresIn - 1)..(expiresIn + MaxSkew))

\* Time passes, to any later instant.
Tick ==
  \E t \in Instants :
    /\ t > now
    /\ now' = t
    /\ UNCHANGED <<gadgets, last, users, held, authorization, pending>>

TokenRegister == Register({AliceBody}, {NoHeader})

TokenLogin == Login({AliceBody}, {NoHeader})

\* The client lists the gadgets with the token it holds.
TokenGet == GuardedGet(HeldHeader(held))

NextToken ==
  \/ TokenRegister
  \/ TokenLogin
  \/ Tick
  \/ TokenGet

SpecToken == Init /\ [][NextToken]_vars

(* ------------------------- matching a request path --------------------- *)

\* A path is the sequence of its segments; a segment of a request is a word
\* or an id, a segment of a route pattern is a word or a named parameter.
Seg(text) == [text |-> text, id |-> UndefinedId]
IdSeg(id) == [text |-> "<id>", id |-> id]
Lit(text) == [param |-> FALSE, text |-> text]
Param(name) == [param |-> TRUE, text |-> name]

\* The method and path patterns of the routes, as routes.ts spells them. In
\* "/gadgets:/id" the colon is not followed by a name, so it starts no
\* parameter: the pattern is the two words "gadgets:" and "id".
Patterns(layer) ==
  CASE layer = "POST /register" -> {<<Lit("register")>>}
    [] layer = "POST /login" -> {<<Lit("login")>>}
    [] layer = "GET /" -> {<<>>}
    [] layer = "GET /gadgets" ->
         {<<Lit("gadgets")>>, <<Lit("gadgets"), Param("id")>>}
    [] layer = "POST /gadgets" -> {<<Lit("gadgets")>>}
    [] layer = "PATCH /gadgets/:id" -> {<<Lit("gadgets"), Param("id")>>}
    [] layer = "DELETE /gadgets:/id" -> {<<Lit("gadgets:"), Lit("id")>>}
    [] layer = "POST /gadgets/:id/self-destruct" ->
         {<<Lit("gadgets"), Param("id"), Lit("self-destruct")>>}
    [] OTHER -> {}

MethodOf(layer) ==
  CASE layer \in {"POST /register", "POST /login", "POST /gadgets",
                  "POST /gadgets/:id/self-destruct"} -> "POST"
    [] layer \in {"GET /", "GET /gadgets"} -> "GET"
    [] layer = "PATCH /gadgets/:id" -> "PATCH"
    [] layer = "DELETE /gadgets:/id" -> "DELETE"
    [] OTHER -> "use"

MatchesPath(pattern, path) ==
  /\ Len(pattern) = Len(path)
  /\ \A i \in 1..Len(path) :
       pattern[i].param \/ pattern[i].text = path[i].text

\* The first route of the stack that matches, or express's final handler.
route(method, path) ==
  LET matching == {i \in 1..Len(Stack) :
                     /\ MethodOf(Stack[i]) = method
                     /\ \E pt \in Patterns(Stack[i]) : MatchesPath(pt, path)}
  IN  IF matching = {} THEN "finalhandler"
      ELSE Stack[CHOOSE i \in matching : \A j \in matching : i <= j]

\* The 404 of express's final handler.
finalhandler(db) ==
  Send(Start(db), [code |-> 404, envelope |-> FALSE, success |-> FALSE,
                   message |-> "Cannot DELETE", data |-> {}])

\* DELETE /gadgets/{id}, as the README documents the endpoint: the guard,
\* then whatever route matches the path.
GuardedDeleteById(headers) ==
  \E hd \in headers, id \in UUIDs :
    LET layer == route("DELETE", <<Seg("gadgets"), IdSeg(id)>>)
        routed == IF layer = "DELETE /gadgets:/id"
                  THEN deleteGadgetRoute(gadgets, UndefinedId)
                  ELSE finalhandler(gadgets)
        h == authMiddleware(gadgets, hd, now, routed)
    IN  /\ gadgets' = h.db
        /\ last' = Handled("DELETE /gadgets/{id}", id, NoBody, Undefined, h)
        /\ authorization' = hd
        /\ UNCHANGED <<users, now, held, pending>>

(* --------------- specification: every route, any header ---------------- *)

GatewayRegister == Register({AliceBody}, Headers(held))

GatewayLogin == Login({AliceBody}, Headers(held))

GatewayGet == GuardedGet(Headers(held))

GatewayCreate == GuardedCreate(Headers(held))

GatewayUpdate == GuardedUpdate(Headers(held))

GatewayDelete == GuardedDelete(Headers(held))

GatewayDestruct == GuardedDestruct(Headers(held))

GatewayDeleteById == GuardedDeleteById(Headers(held))

NextGateway ==
  \/ GatewayRegister
  \/ GatewayLogin
  \/ GatewayGet
  \/ GatewayCreate
  \/ GatewayUpdate
  \/ GatewayDelete
  \/ GatewayDestruct
  \/ GatewayDeleteById

SpecGateway == Init /\ [][NextGateway]_vars

(* ------------ specification: lifecycle requests in flight -------------- *)

\* A destroyGadget whose update changes nothing.
destroyGadget_write_none(db, id) ==
  Outcome(db, TRUE, "Gadget is destroyed successfully", {}, <<"update">>,
          FALSE)

\* decommissionGadget and destroyGadget after their checks on the row they
\* read: the update by id, whatever the row holds by then, and the result.
decommissionGadget_write(db, id) ==
  Outcome(UpdateStatus(db, id, Decommissioned), TRUE,
          "Gadget was Decommissioned successfully", {}, <<"update">>, FALSE)

destroyGadget_write(db, id) ==
  Outcome(UpdateStatus(db, id, Destroyed), TRUE,
          "Gadget is destroyed successfully", {}, <<"update">>, FALSE)

\* The gadget the racing requests address.
RaceIds == {1}

RaceCreate ==
  \E newId \in UUIDs \ Ids(gadgets) :
    LET h == createGadgetRoute(gadgets, GuardedCreateBody, newId) IN
    /\ gadgets' = h.db
    /\ last' = Handled("createGadgetRoute", newId, GuardedCreateBody,
                       Undefined, h)
    /\ UNCHANGED authVars

\* A DELETE request runs up to the end of decommissionGadget's select. If
\* the checks on the row pass, it is suspended at the await of the update;
\* otherwise it is answered at once.
DecommissionCheck ==
  \E c \in Clients \ {p.client : p \in pending}, id \in RaceIds :
    LET o == decommissionGadget(gadgets, id) IN
    IF o.ok
    THEN /\ pending' = pending \cup
                         {[client |-> c, op |-> "deleteGadgetRoute",
                           id |-> id, check |-> o.rows]}
         /\ UNCHANGED <<gadgets, last, users, now, held, authorization>>
    ELSE /\ last' = Handled("deleteGadgetRoute", id, NoBody, Undefined,
                            deleteGadgetRoute(gadgets, id))
         /\ UNCHANGED <<gadgets, users, now, held, authorization, pending>>

\* A suspended DELETE request resumes: the update, then the response.
DecommissionWrite ==
  \E p \in pending :
    /\ p.op = "deleteGadgetRoute"
    /\ LET h == Await(Start(gadgets), decommissionGadget_write(gadgets, p.id))
       IN  /\ gadgets' = h.db
           /\ last' = Handled("deleteGadgetRoute", p.id, NoBody, Undefined,
                              Send(h, Envelope(200, TRUE, h.message, {})))
    /\ pending' = pending \ {p}
    /\ UNCHANGED <<users, now, held, authorization>>

\* The same two steps of a self-destruct request.
DestroyCheck ==
  \E c \in Clients \ {p.client : p \in pending}, id \in RaceIds :
    LET o == destroyGadget(gadgets, id) IN
    IF o.ok
    THEN /\ pending' = pending \cup
                         {[client |-> c, op |-> "destructGadget",
                           id |-> id, check |-> o.rows]}
         /\ UNCHANGED <<gadgets, last, users, now, held, authorization>>
    ELSE /\ last' = Handled("destructGadget", id, NoBody, Undefined,
                            destructGadget(gadgets, id))
         /\ UNCHANGED <<gadgets, users, now, held, authorization, pending>>

DestroyWrite ==
  \E p \in pending :
    /\ p.op = "destructGadget"
    /\ LET h == Await(Start(gadgets), destroyGadget_write(gadgets, p.id))
       IN  /\ gadgets' = h.db
           /\ last' = Handled("destructGadget", p.id, NoBody, Undefined,
                              Send(h, Envelope(200, TRUE, h.message, {})))
    /\ pending' = pending \ {p}
    /\ UNCHANGED <<users, now, held, authorization>>

NextRace ==
  \/ RaceCreate
  \/ DecommissionCheck
  \/ DecommissionWrite
  \/ DestroyCheck
  \/ DestroyWrite

SpecRace == Init /\ [][NextRace]_vars

(* ------------------------------- claims -------------------------------- *)

\* The error kinds of the two guarded controllers, by their messages.
InvalidIdentifier == {"Wrong UUID was provided"}
NotFound == {"No gadget with this UUID was found", "There is no gadget to destroy"}
AlreadyDecommissioned == {"Gadget was already Decommissioned"}
AlreadyDestroyed == {"Gadget was already destroyed"}

\* The store operations that write.
Writes == {"insert", "update", "delete"}

Range(seq) == {seq[i] : i \in 1..Len(seq)}

\* The row of the table with the given id, as a set.
RowOf(db, id) == {g \in db : g.id = id}

\* C1: a decommission of an existing gadget that is not Decommissioned
\* succeeds and leaves it Decommissioned; a decommission that directly
\* follows a successful decommission of the same id fails with
\* "Gadget was already Decommissioned" and changes nothing in the table.
C1_DecommissionRejectsRepeat ==
  [][ /\ \A g \in gadgets :
           (last'.op = "deleteGadgetRoute" /\ last'.id = g.id
              /\ g.status # Decommissioned)
             => /\ last'.ok
                /\ [g EXCEPT !.status = Decommissioned] \in gadgets'
      /\ (last.op = "deleteGadgetRoute" /\ last.ok
            /\ last'.op = "deleteGadgetRoute" /\ last'.id = last.id)
           => /\ ~last'.ok
              /\ last'.message \in AlreadyDecommissioned
              /\ gadgets' = gadgets ]_vars

\* C1 witness: a decommission was just rejected as a repeat, and the gadget
\* is still in the table with status Decommissioned.
C1_Witness ==
  /\ last.op = "deleteGadgetRoute"
  /\ ~last.ok
  /\ last.message \in AlreadyDecommissioned
  /\ \E g \in gadgets : g.id = last.id /\ g.status = Decommissioned

\* C2: destroy of an existing gadget that is not Destroyed succeeds and
\* leaves it Destroyed; destroy of a gadget read as Destroyed fails with
\* "Gadget was already destroyed", issues no write and leaves the row as read.
C2_DestroyGuard ==
  (last.op = "destructGadget" /\ last.rows # {})
    => LET before == First(last.rows) IN
       IF before.status # Destroyed
       THEN /\ last.ok
            /\ [before EXCEPT !.status = Destroyed] \in gadgets
       ELSE /\ ~last.ok
            /\ last.message \in AlreadyDestroyed
            /\ Range(last.trace) \cap Writes = {}
            /\ before \in gadgets

\* C2 witness: a destroy of a Destroyed gadget was just rejected.
C2_Witness ==
  /\ last.op = "destructGadget"
  /\ last.rows # {}
  /\ First(last.rows).status = Destroyed
  /\ last.message \in AlreadyDestroyed

\* C3: destroy and decommission of a valid UUID that names no gadget fail
\* with NotFound, and the table after the call equals the table before it.
C3_NotFoundNoMutation ==
  [][ (/\ last'.op \in {"destructGadget", "deleteGadgetRoute"}
       /\ isValidUUID(last'.id)
       /\ RowOf(gadgets, last'.id) = {})
        => /\ ~last'.ok
           /\ last'.message \in NotFound
           /\ gadgets' = gadgets ]_vars

\* C3 witness: a destroy of a valid UUID was just answered NotFound while
\* the table holds another gadget.
C3_Witness ==
  /\ last.op = "destructGadget"
  /\ isValidUUID(last.id)
  /\ last.message \in NotFound
  /\ gadgets # {}
  /\ RowOf(gadgets, last.id) = {}

\* C4: decommission and destroy of an id that is not a valid UUID fail with
\* InvalidIdentifier having issued no store operation at all.
C4_InvalidIdentifierFirst ==
  (last.op \in {"destructGadget", "deleteGadgetRoute"} /\ ~isValidUUID(last.id))
    => /\ ~last.ok
       /\ last.message \in InvalidIdentifier
       /\ last.trace = <<>>

\* C4 witness: a destroy of a non-UUID id was just rejected on a non-empty table.
C4_Witness ==
  /\ last.op = "destructGadget"
  /\ last.id = NotAUUID
  /\ last.message \in InvalidIdentifier
  /\ gadgets # {}

\* C5: on an existing gadget, decommission succeeds exactly when the status
\* read is not Decommissioned, and destroy exactly when it is not Destroyed;
\* a success leaves the gadget in the target status.
C5_GuardedStateMachine ==
  /\ (last.op = "deleteGadgetRoute" /\ last.rows # {})
       => /\ last.ok <=> First(last.rows).status # Decommissioned
          /\ last.ok => [First(last.rows) EXCEPT !.status = Decommissioned]
                          \in gadgets
  /\ (last.op = "destructGadget" /\ last.rows # {})
       => /\ last.ok <=> First(last.rows).status # Destroyed
          /\ last.ok => [First(last.rows) EXCEPT !.status = Destroyed]
                          \in gadgets

\* C5 witness: the end of create -> decommission -> destroy: a destroy of a
\* Decommissioned gadget succeeded and the gadget is Destroyed.
C5_Witness ==
  /\ last.op = "destructGadget"
  /\ last.ok
  /\ last.rows # {}
  /\ First(last.rows).status = Decommissioned
  /\ \E g \in gadgets : g.id = last.id /\ g.status = Destroyed

\* C5 second case: a decommission of a Destroyed gadget succeeded.
C5_DecommissionFromDestroyed ==
  /\ last.op = "deleteGadgetRoute"
  /\ last.ok
  /\ last.rows # {}
  /\ First(last.rows).status = Destroyed

C7_StatusEnumerated == \A g \in gadgets : g.status \in GadgetStatus

\* C8: after a create with a non-empty name and a valid status in any letter
\* case, get of the new id returns one gadget with that name and with the
\* status in canonical capitalization, whatever the table held before.
C8_CreateThenGet ==
  \A S \in validStatuses :
    (/\ last.op = "createGadgetRoute"
     /\ Truthy(last.body.name)
     /\ toLowerCase(last.body.status) = toLowerCase(S))
      => getGadget(gadgets, last.id).rows
           = {[id |-> last.id, name |-> last.body.name, status |-> S]}

\* C8 witness: a gadget was just created from the status "dESTROYED", directly
\* in a lifecycle-final status, next to an existing gadget.
C8_Witness ==
  /\ last.op = "createGadgetRoute"
  /\ last.body.status = invertCase(Destroyed)
  /\ Cardinality(gadgets) > 1
  /\ \E g \in gadgets : g.id = last.id /\ g.status = Destroyed

Spells(query, S) == query # Undefined /\ toLowerCase(query) = toLowerCase(S)

\* C10 as stated: a list-by-status request whose status is a valid one in
\* any letter case is answered with the gadgets of that status.
C10_CaseInsensitive ==
  \A S \in validStatuses :
    (last.op = "getGadgetsRoute" /\ last.id = UndefinedId /\ Spells(last.query, S))
      => Sent(last) = {Envelope(200, TRUE, "", SelectByStatus(gadgets, S))}

\* C10 amended: a valid status in canonical capitalization is answered with
\* exactly the gadgets of that status; in any other letter case it is
\* answered 400 "Status must be capitalized" and no query reaches the table.
C10_CanonicalOnly ==
  \A S \in validStatuses :
    (last.op = "getGadgetsRoute" /\ last.id = UndefinedId /\ Spells(last.query, S))
      => IF last.query = S
         THEN Sent(last) = {Envelope(200, TRUE, "", SelectByStatus(gadgets, S))}
         ELSE /\ Sent(last) = {Envelope(400, FALSE, "Status must be capitalized", {})}
              /\ last.trace = <<>>

\* C10 witness: "deployed" was just refused while a Deployed gadget is stored.
C10_Witness ==
  /\ last.op = "getGadgetsRoute"
  /\ last.id = UndefinedId
  /\ last.query = toLowerCase(Deployed)
  /\ SelectByStatus(gadgets, Deployed) # {}
  /\ Sent(last) = {Envelope(400, FALSE, "Status must be capitalized", {})}

\* C11: a list-by-status request whose status is none of the four values in
\* any letter case is answered with a failure only, and no select reaches
\* the table.
C11_InvalidStatusNoQuery ==
  (/\ last.op = "getGadgetsRoute"
   /\ last.id = UndefinedId
   /\ Truthy(last.query)
   /\ \A S \in validStatuses : ~Spells(last.query, S))
    => /\ Sent(last) # {}
       /\ \A r \in Sent(last) : ~r.success /\ r.data = {}
       /\ "select" \notin Range(last.trace)

\* C19: a create whose body has no name, no status, or a status outside the
\* four values is rejected: the client gets no success response and the
\* table is left as it was.
C19_CreateValidates ==
  [][(/\ last'.op = "createGadgetRoute"
      /\ \/ ~Truthy(last'.body.name)
         \/ ~Truthy(last'.body.status)
         \/ \A S \in validStatuses : ~Spells(last'.body.status, S))
       => /\ gadgets' = gadgets
          /\ Sent(last') # {}
          /\ \A r \in Sent(last') : ~r.success]_vars

\* C20: a rename or status update addressed to an id that names no gadget
\* does not report success and leaves the table as it was.
C20_UpdateNotFound ==
  [][(/\ last'.op = "updateGadgetRoute"
      /\ RowOf(gadgets, last'.id) = {})
       => /\ gadgets' = gadgets
          /\ \A r \in Sent(last') : ~r.success]_vars

\* The error kinds of register and login, by their messages.
DuplicateUsername == {"This username is not empty"}
UnknownUser == {"This user doesn't exist"}
InvalidCredentials == {"The password is wrong"}

\* C12: when register calls run one after another, a register that carries
\* a password and a username already in the users table is answered 400
\* with the DuplicateUsername message, and the table is left as it was, with
\* exactly one record for that username.
C12_DuplicateUsername ==
  [][(/\ last'.op = "registerUser"
      /\ last'.body.password # Undefined
      /\ usersByUsername(users, last'.body.username) # {})
       => /\ \E m \in DuplicateUsername :
               Sent(last') = {Envelope(400, FALSE, m, {})}
          /\ users' = users
          /\ Cardinality(usersByUsername(users', last'.body.username)) = 1]_vars

\* alice registered with pw1, and a second register of alice with pw2 was
\* refused: her only record carries the hash of pw1.
C12_Witness ==
  /\ last.op = "registerUser"
  /\ last.body = [username |-> Alice, password |-> Pw2]
  /\ \E r \in Sent(last) : r.message \in DuplicateUsername
  /\ \E u \in users :
       /\ usersByUsername(users, Alice) = {u}
       /\ compare(Pw1, u.password)
       /\ ~compare(Pw2, u.password)

\* C13: under every interleaving of register requests, no two records of
\* the users table share a username.
C13_UniqueUsernames ==
  \A u1, u2 \in users : u1.username = u2.username => u1 = u2

\* The messages a login with the given body is answered with.
LoginMessages(body) ==
  {r.message : r \in Sent(verifyLoginUser(users, body, now))}

\* C14: a login with a registered username and a wrong password and a login
\* with a username that was never registered are answered with the same
\* failure message.
C14_SameFailureMessage ==
  \A known \in {u.username : u \in users} :
    \A unknown \in {Alice, Bob} \ {u.username : u \in users} :
      \A wrong \in {Pw1, Pw2} :
        (\A u \in usersByUsername(users, known) : ~compare(wrong, u.password))
          => LoginMessages([username |-> known, password |-> wrong])
               = LoginMessages([username |-> unknown, password |-> wrong])

\* The tokens a response carries.
Tokens(l) == {d.token : d \in UNION {r.data : r \in Sent(l)}}

\* C15: login issues a token only for a username in the users table with a
\* password that matches its hash, and the token's username is that
\* username; an unknown username is answered with the UnknownUser failure
\* and a mismatching or absent password with the InvalidCredentials
\* failure, both without a token.
C15_LoginIssuesToken ==
  last.op = "verifyLoginUser" =>
    LET known == usersByUsername(users, last.body.username)
        matches == /\ last.body.password # Undefined
                   /\ \E u \in known : compare(last.body.password, u.password)
    IN  /\ Tokens(last) # {}
             => /\ known # {}
                /\ matches
                /\ \A t \in Tokens(last) : t[2].username = last.body.username
        /\ (Truthy(last.body.username) /\ known = {})
             => \E m \in UnknownUser :
                  Sent(last) = {Envelope(400, FALSE, m, {})}
        /\ (known # {} /\ ~matches)
             => \E m \in InvalidCredentials :
                  Sent(last) = {Envelope(400, FALSE, m, {})}

\* C18: a register whose body lacks a non-empty username or a non-empty
\* password is answered 400 and inserts nothing into the users table.
C18_RegisterValidates ==
  [][(/\ last'.op = "registerUser"
      /\ ~Truthy(last'.body.username) \/ ~Truthy(last'.body.password))
       => /\ \E r \in Sent(last') : r.code = 400
          /\ users' = users]_vars

\* The error kinds of the guard, by their messages.
MissingToken == {"JWT was not found in headers."}
InvalidToken == {"Invalid Token"}

\* C16: a request that presents the token of a successful login passes the
\* guard at any time before the token's lifetime of 7 days has run, and is
\* answered with the InvalidToken rejection at any time from then on.
C16_TokenExpiry ==
  [][(/\ last'.op = "getGadgetsRoute"
      /\ now' = now
      /\ IsToken(held)
      /\ authorization' = <<"Bearer", held>>)
       => IF now < held[2].iat + expiresIn
          THEN \E r \in Sent(last') : r.success
          ELSE \E m \in InvalidToken :
                 Sent(last') = {Envelope(401, FALSE, m, {})}]_vars

GadgetOps ==
  {"getGadgetsRoute", "createGadgetRoute", "updateGadgetRoute",
   "deleteGadgetRoute", "destructGadget"}

\* A token that is malformed or not signed with the key over its claims.
BadToken(t) == ~IsToken(t) \/ t[3] # [key |-> SECRET_KEY, of |-> t[2]]

\* C17: a request to a gadget route without Authorization header is
\* answered 401 with the MissingToken message, one with a malformed or badly
\* signed token 401 with the InvalidToken message; in both cases no
\* statement reaches the store and both tables are left as they were.
\* Register and login without a header reach their handlers.
C17_RoutesGuarded ==
  [][/\ (last'.op \in GadgetOps /\ authorization' = NoHeader)
          => /\ \E m \in MissingToken :
                  Sent(last') = {Envelope(401, FALSE, m, {})}
             /\ last'.trace = <<>>
             /\ gadgets' = gadgets /\ users' = users
     /\ (/\ last'.op \in GadgetOps
         /\ authorization' # NoHeader
         /\ BadToken(bearerToken(authorization')))
          => /\ \E m \in InvalidToken :
                  Sent(last') = {Envelope(401, FALSE, m, {})}
             /\ last'.trace = <<>>
             /\ gadgets' = gadgets /\ users' = users
     /\ (/\ last'.op \in {"registerUser", "verifyLoginUser"}
         /\ authorization' = NoHeader)
          => /\ last'.trace # <<>>
             /\ \A r \in Sent(last') : r.code # 401]_vars

\* A self-destruct of an existing, not yet destroyed gadget was refused for
\* want of a header, after a login without header had issued a token.
C17_Witness ==
  /\ last.op = "destructGadget"
  /\ authorization = NoHeader
  /\ \E r \in Sent(last) : r.code = 401 /\ r.message \in MissingToken
  /\ \E g \in RowOf(gadgets, last.id) : g.status = Available
  /\ IsToken(held)

\* C21: a PATCH of an existing gadget whose body carries only a status sets
\* the gadget's status to the capitalized value and leaves its name; a PATCH
\* whose body carries only a name sets the name and leaves the status.
C21_UpdateChangesGivenField ==
  [][last'.op = "updateGadgetRoute"
       => \A g \in RowOf(gadgets, last'.id) :
            /\ (~Truthy(last'.body.name) /\ Truthy(last'.body.status))
                 => RowOf(gadgets', g.id)
                      = {[g EXCEPT !.status = capitalize(last'.body.status)]}
            /\ (Truthy(last'.body.name) /\ ~Truthy(last'.body.status))
                 => RowOf(gadgets', g.id)
                      = {[g EXCEPT !.name = last'.body.name]}]_vars

\* C23: no handler run ends in an exception or a rejected promise that
\* nothing catches.
C23_NoUncaughtFault == ~last.threw

\* C24: a get of one id is answered with exactly the gadget of that id when
\* there is one and with a failure when there is none, never with an empty
\* success or the list of all gadgets.
C24_GetById ==
  (last.op = "getGadgetsRoute" /\ isValidUUID(last.id))
    => /\ Sent(last) # {}
       /\ \A r \in Sent(last) :
            IF RowOf(gadgets, last.id) # {}
            THEN r.success /\ r.data = RowOf(gadgets, last.id)
            ELSE ~r.success

\* C28: a handler sends at most one response, and once it has sent a
\* failure it sends no success.
C28_OneResponse ==
  /\ Len(last.sends) <= 1
  /\ \A i, j \in 1..Len(last.sends) :
       (i < j /\ ~last.sends[i].success) => ~last.sends[j].success

\* C29: every request to a guarded route is answered, by the guard or by
\* the handler it is passed on to, whatever the verification of its token
\* gives.
C29_GuardAlwaysAnswers ==
  last.op \in GadgetOps => Sent(last) # {}

\* C22: under every interleaving, a decommission that returns success wrote
\* Decommissioned over a status that was not Decommissioned when it wrote,
\* and a destroy that returns success wrote Destroyed over a status that
\* was not Destroyed when it wrote.
C22_NoSilentNoOp ==
  [][\A p \in pending \ pending' :
       \A g \in RowOf(gadgets, p.id) :
         /\ p.op = "deleteGadgetRoute" => g.status # Decommissioned
         /\ p.op = "destructGadget" => g.status # Destroyed]_vars

\* C27: with destroy calls on one gadget in flight together, every destroy
\* that returns success leaves the gadget Destroyed, also when another
\* destroy had passed its check on the same row before.
C27_DoubleDestroyConverges ==
  (last.op = "destructGadget" /\ \E r \in Sent(last) : r.success)
    => /\ RowOf(gadgets, last.id) # {}
       /\ \A g \in RowOf(gadgets, last.id) : g.status = Destroyed

\* One destroy has returned success and the gadget is Destroyed, while a
\* second destroy of the same gadget, which read it as Available, is past
\* its check and about to write.
C27_Witness ==
  /\ last.op = "destructGadget"
  /\ \E r \in Sent(last) : r.success
  /\ \A g \in RowOf(gadgets, last.id) : g.status = Destroyed
  /\ \E p \in pending :
       /\ p.op = "destructGadget"
       /\ p.id = last.id
       /\ \A g \in p.check : g.status = Available

\* C25: a DELETE /gadgets/{id} request with a valid token, for an existing
\* gadget that is not Decommissioned, ends with the gadget Decommissioned.
C25_DeleteDecommissions ==
  [][(/\ last'.op = "DELETE /gadgets/{id}"
      /\ verify(bearerToken(authorization'), SECRET_KEY, now) = "ok"
      /\ \E g \in RowOf(gadgets, last'.id) : g.status # Decommissioned)
       => \A g \in RowOf(gadgets', last'.id) : g.status = Decommissioned]_vars

\* C26: every record that enters the users table is put there by a register
\* and holds the username of the request with the digest, at the cost
\* factor of registerUser, of the request's password; no step changes or
\* removes a record.
C26_HashedAndImmutable ==
  [][/\ users \subseteq users'
     /\ \A u \in users' \ users :
          /\ last'.op = "registerUser"
          /\ u.username = last'.body.username
          /\ u.password.rounds = SaltRounds
          /\ compare(last'.body.password, u.password)]_vars

\* A login has read the record of a registered user and succeeded, and the
\* record is still the digest of the password it was registered with.
C26_Witness ==
  /\ last.op = "verifyLoginUser"
  /\ \E r \in Sent(last) : r.success
  /\ \E u \in users :
       /\ u.username = last.body.username
       /\ u.password.rounds = SaltRounds
       /\ compare(last.body.password, u.password)
  /\ Cardinality(users) = 2

\* C30: a successful decommission or destroy leaves every other gadget as
\* it was, keeps the id and the name of the gadget it addresses, adds and
\* removes no row, and leaves the users table as it was; and no step of any
\* operation changes the id of a gadget.
C30_MutationFrame ==
  [][/\ (/\ last'.op \in {"deleteGadgetRoute", "destructGadget"}
         /\ \E r \in Sent(last') : r.success)
          => /\ \A g \in gadgets : g.id # last'.id => g \in gadgets'
             /\ \A g \in RowOf(gadgets, last'.id) :
                  \E g2 \in gadgets' : g2.id = g.id /\ g2.name = g.name
             /\ Cardinality(gadgets') = Cardinality(gadgets)
             /\ users' = users
     /\ \A g \in gadgets : Cardinality(RowOf(gadgets', g.id)) = 1]_vars

\* A self-destruct succeeded on one of two gadgets while a user is
\* registered: the other gadget is still Available.
C30_Witness ==
  /\ last.op = "destructGadget"
  /\ \E r \in Sent(last) : r.success
  /\ \A g \in RowOf(gadgets, last.id) : g.status = Destroyed /\ g.name = Hook
  /\ \E g \in gadgets : g.id # last.id /\ g.status = Available
  /\ users # {}

====
